---- MODULE Spec2Model ----
(***************************************************************************)
(* EcoLens (app.py): a two-stage pipeline run by one button handler.       *)
(*   ScoutAgent.search    -> Evidence  (live search or canned fallback)    *)
(*   AnalystAgent.analyze -> Report    (live generation, mock brain, or a  *)
(*                                      diagnostic string)                 *)
(*   main                 -> shows the Report, appends a Session Log entry *)
(*                                                                         *)
(* Texts are modelled as strings, built with \o exactly as the f-strings   *)
(* of the source build them, layout whitespace included.  The three emoji  *)
(* of the source are written as their ASCII short codes (:bar_chart:,      *)
(* :bulb:, :white_check_mark:) because module text is ASCII.               *)
(***************************************************************************)
EXTENDS Integers, Sequences, FiniteSets, TLC

VARIABLES
    AI_AVAILABLE,    \* app.py:6-11, fixed at import time
    history,         \* st.session_state.history
    pc,              \* position of main's button handler
    mat_a, mat_b,    \* the two text inputs of the running invocation
    openai_key,      \* the credential of the running invocation
    results_text,    \* ScoutAgent.search: the accumulator
    yielded,         \* the results the provider has yielded so far
    search_calls,    \* external search calls issued in this invocation
    search_outcome,  \* how the search stage ended: none / ok / provider_error / empty
    raw_data,        \* main: the value scout.search returned
    search_data,     \* AnalystAgent.analyze: its evidence parameter
    gen_calls,       \* external generation calls (llm.invoke) of this invocation
    gen_result,      \* what the generation provider did
    mock_calls,      \* calls of _mock_analysis in this invocation
    final_report,    \* main: the value analyst.analyze returned
    displayed,       \* what st.markdown has rendered in this invocation
    invocations      \* the subject pairs of the button presses, in order

vars == << AI_AVAILABLE, history, pc, mat_a, mat_b, openai_key, results_text,
           yielded, search_calls, search_outcome, raw_data, search_data,
           gen_calls, gen_result, mock_calls, final_report, displayed,
           invocations >>

(***************************************************************************)
(* Bounds and input sets.                                                  *)
(***************************************************************************)
MaxRuns == 2        \* button presses per session
MaxResults == 2     \* results one search call yields at most

Subjects == { "Bamboo Fiber", "Cotton" }

NoneKey == [kind |-> "None", val |-> ""]
StrKey(s) == [kind |-> "str", val |-> s]
Keys == { NoneKey, StrKey(""), StrKey("sk-test") }

Results ==
    { [title |-> "LCA of bamboo", url |-> "http://a.example/1.pdf",
       description |-> "GWP of bamboo fiber"],
      [title |-> "", url |-> "http://b.example/2.pdf", description |-> ""] }

GenTexts == { "\n| GWP | Water |\nUse bamboo.\n", "" }
Errors == { "401 Unauthorized", "Connection timed out" }
Timestamps == { "09:15:00", "23:59:59" }

(***************************************************************************)
(* String helpers (Python str operations used by the properties).          *)
(***************************************************************************)
StartsWith(text, p) ==
    /\ Len(text) >= Len(p)
    /\ SubSeq(text, 1, Len(p)) = p

Contains(text, s) ==
    \E i \in 1..(Len(text) - Len(s) + 1) : SubSeq(text, i, i + Len(s) - 1) = s

Count(text, s) ==
    Cardinality({ i \in 1..(Len(text) - Len(s) + 1) :
                    SubSeq(text, i, i + Len(s) - 1) = s })

IsSpace(c) == c \in { " ", "\n", "\t" }

RECURSIVE LStrip(_)
LStrip(text) ==
    IF Len(text) > 0 /\ IsSpace(SubSeq(text, 1, 1))
    THEN LStrip(SubSeq(text, 2, Len(text)))
    ELSE text

(***************************************************************************)
(* ScoutAgent                                                              *)
(***************************************************************************)
Query(a, b) ==
    "Life cycle assessment " \o a \o " vs " \o b
    \o " global warming potential filetype:pdf"

NumResults == 5

SearchRequest(a, b) ==
    [query |-> Query(a, b), num_results |-> NumResults, advanced |-> TRUE]

Entry(res) ==
    "Source: " \o res.title \o "\nLink: " \o res.url
    \o "\nDescription: " \o res.description \o "\n\n"

FallbackMarker ==
    "[SYSTEM NOTE: Live Search blocked or limited. Using cached fallback data.]"

FallbackEvidence(a, b) ==
    "\n"
    \o "            " \o FallbackMarker \o "\n"
    \o "            1. Comparative LCA of " \o a \o " and " \o b \o " (ScienceDirect)" \o "\n"
    \o "               - Data indicates " \o a \o " has lower GWP per kg than " \o b \o "." \o "\n"
    \o "            2. Environmental Impact Report 2024" \o "\n"
    \o "               - " \o b \o " requires significantly more water usage (approx 3x) compared to " \o a \o "." \o "\n"
    \o "            3. End-of-Life Scenarios" \o "\n"
    \o "               - " \o a \o " is biodegradable; " \o b \o " is persistent in landfills." \o "\n"
    \o "            "

(***************************************************************************)
(* AnalystAgent                                                            *)
(***************************************************************************)
(* Variant: "and" in place of "or" in the test of line 62.                  *)
UseMockBrain_And(api_key, ai_available) ==
    ~(api_key.kind = "str" /\ Len(api_key.val) > 0) /\ ~ai_available

Truthy(k) == k.kind = "str" /\ Len(k.val) > 0

UseMockBrain(api_key, ai_available) == ~Truthy(api_key) \/ ~ai_available

winner(a, b) == IF Len(a) > Len(b) THEN a ELSE b

_mock_analysis(a, b) ==
    LET w == winner(a, b)    \* assigned at app.py:87 and not read afterwards
    IN
    "\n"
    \o "        ### :bar_chart: Automated Sustainability Matrix (Safe Mode)" \o "\n"
    \o "        " \o "\n"
    \o "        *Note: Running in fallback mode (No API Key detected). Displaying synthesized analysis.*" \o "\n"
    \o "\n"
    \o "        | Impact Category | **" \o a \o "** | **" \o b \o "** | Status |" \o "\n"
    \o "        | :--- | :--- | :--- | :--- |" \o "\n"
    \o "        | **Global Warming (kg CO2)** | 2.5 (Est) | 8.1 (Est) | :white_check_mark: " \o a \o " Better |" \o "\n"
    \o "        | **Water Usage (L/kg)** | 500 | 9,000 | :white_check_mark: " \o a \o " Better |" \o "\n"
    \o "        | **Circular Economy** | Compostable | Landfill | :white_check_mark: " \o a \o " Better |" \o "\n"
    \o "        " \o "\n"
    \o "        ### :bulb: System Recommendation" \o "\n"
    \o "        **" \o a \o "** is recommended. The extracted data suggests it outperforms **" \o b \o "** across all major environmental impact categories." \o "\n"
    \o "        "

SystemPrompt ==
    "\n"
    \o "            You are an Expert Sustainable Engineer. " \o "\n"
    \o "            Output a Markdown Table comparing the materials on: GWP, Water, Recyclability." \o "\n"
    \o "            End with a 1-sentence recommendation." \o "\n"
    \o "            "

HumanPrompt(evidence, a, b) ==
    "Compare " \o a \o " vs " \o b \o " using this data: " \o evidence

GenRequest(api_key, evidence, a, b) ==
    [model |-> "gpt-4", temperature |-> 0, openai_api_key |-> api_key.val,
     system |-> SystemPrompt, human |-> HumanPrompt(evidence, a, b)]

(* Variant: response.content.lstrip() is returned.                          *)
LiveReport_Stripped(content) == LStrip(content)

LiveReport(content) == content

ErrorReport(e) ==
    "Error in AI processing: " \o e \o ". (Falling back to manual analysis...)"

(***************************************************************************)
(* main                                                                    *)
(***************************************************************************)
SessionRecord(timestamp, a, b) ==
    "[" \o timestamp \o "] " \o a \o " vs " \o b

NoResult == [kind |-> "none", text |-> ""]

Init ==
    /\ AI_AVAILABLE \in BOOLEAN
    /\ history = << >>
    /\ pc = "idle"
    /\ mat_a = ""
    /\ mat_b = ""
    /\ openai_key = StrKey("")
    /\ results_text = ""
    /\ yielded = << >>
    /\ search_calls = << >>
    /\ search_outcome = "none"
    /\ raw_data = ""
    /\ search_data = ""
    /\ gen_calls = << >>
    /\ gen_result = NoResult
    /\ mock_calls = 0
    /\ final_report = ""
    /\ displayed = << >>
    /\ invocations = << >>

(* The button at app.py:131 is pressed with the inputs of the widgets.       *)
ButtonPress(a, b, key) ==
    /\ pc = "idle"
    /\ Len(history) < MaxRuns
    /\ mat_a' = a
    /\ mat_b' = b
    /\ openai_key' = key
    /\ invocations' = Append(invocations, << a, b >>)
    /\ pc' = "scout"
    /\ UNCHANGED << AI_AVAILABLE, history, results_text, yielded, search_calls,
                    search_outcome, raw_data, search_data, gen_calls,
                    gen_result, mock_calls, final_report, displayed >>

(* ScoutAgent.search, lines 25-30: the query is built and the one external  *)
(* search call is issued; its results arrive while the for loop iterates.   *)
SearchCall ==
    /\ pc = "scout"
    /\ results_text' = ""
    /\ yielded' = << >>
    /\ search_calls' = Append(search_calls, SearchRequest(mat_a, mat_b))
    /\ pc' = "iterating"
    /\ UNCHANGED << AI_AVAILABLE, history, mat_a, mat_b, openai_key,
                    search_outcome, raw_data, search_data, gen_calls,
                    gen_result, mock_calls, final_report, displayed,
                    invocations >>

(* Lines 31-32: the provider yields one more result and it is accumulated.  *)
SearchYield(res) ==
    /\ pc = "iterating"
    /\ Len(yielded) < MaxResults
    /\ results_text' = results_text \o Entry(res)
    /\ yielded' = Append(yielded, res)
    /\ UNCHANGED << AI_AVAILABLE, history, pc, mat_a, mat_b, openai_key,
                    search_calls, search_outcome, raw_data, search_data,
                    gen_calls, gen_result, mock_calls, final_report,
                    displayed, invocations >>

(* Variant: the test "if not results_text" is missing, so an empty result   *)
(* set returns the empty accumulator.                                       *)
SearchFallback_NoEmptyCheck(cause) ==
    /\ raw_data' = IF cause = "empty" THEN results_text
                                      ELSE FallbackEvidence(mat_a, mat_b)
    /\ search_outcome' = cause
    /\ pc' = "searched"

(* What search returns from its except branch, lines 39-49.                 *)
SearchFallback(cause) ==
    /\ raw_data' = FallbackEvidence(mat_a, mat_b)
    /\ search_outcome' = cause
    /\ pc' = "searched"

(* Variant: a provider error is answered by one more search call.           *)
SearchRaise_Retry ==
    /\ pc = "iterating"
    /\ IF Len(search_calls) < 2
       THEN /\ pc' = "scout"
            /\ UNCHANGED << raw_data, search_outcome >>
       ELSE SearchFallback("provider_error")
    /\ UNCHANGED << AI_AVAILABLE, history, mat_a, mat_b, openai_key,
                    results_text, yielded, search_calls, search_data,
                    gen_calls, gen_result, mock_calls, final_report,
                    displayed, invocations >>

(* Variant: the except branch keeps what was accumulated before the error.  *)
SearchRaise_KeepsPartial ==
    /\ pc = "iterating"
    /\ raw_data' = results_text \o FallbackEvidence(mat_a, mat_b)
    /\ search_outcome' = "provider_error"
    /\ pc' = "searched"
    /\ UNCHANGED << AI_AVAILABLE, history, mat_a, mat_b, openai_key,
                    results_text, yielded, search_calls, search_data,
                    gen_calls, gen_result, mock_calls, final_report,
                    displayed, invocations >>

(* The provider raises, before any result or part-way through them.         *)
SearchRaise ==
    /\ pc = "iterating"
    /\ SearchFallback("provider_error")
    /\ UNCHANGED << AI_AVAILABLE, history, mat_a, mat_b, openai_key,
                    results_text, yielded, search_calls, search_data,
                    gen_calls, gen_result, mock_calls, final_report,
                    displayed, invocations >>

(* The provider's results end, lines 34-37: nothing accumulated raises "No  *)
(* results found" into the same except branch, otherwise the text returns.  *)
SearchExhausted ==
    /\ pc = "iterating"
    /\ IF results_text = ""
       THEN SearchFallback("empty")
       ELSE /\ raw_data' = results_text
            /\ search_outcome' = "ok"
            /\ pc' = "searched"
    /\ UNCHANGED << AI_AVAILABLE, history, mat_a, mat_b, openai_key,
                    results_text, yielded, search_calls, search_data,
                    gen_calls, gen_result, mock_calls, final_report,
                    displayed, invocations >>

(* Variant: main calls analyze without having run the scout first.          *)
AnalyzeReady_Early == pc \in { "scout", "searched" }

(* main line 142 calls analyze once scout.search has returned; the frame of *)
(* search (results_text, the result iterator) is gone by then.              *)
AnalyzeReady == pc = "searched"

(* analyze, lines 62-66: the mock brain.                                    *)
AnalyzeMock ==
    /\ AnalyzeReady
    /\ UseMockBrain(openai_key, AI_AVAILABLE)
    /\ search_data' = raw_data
    /\ results_text' = ""
    /\ yielded' = << >>
    /\ mock_calls' = mock_calls + 1
    /\ final_report' = _mock_analysis(mat_a, mat_b)
    /\ pc' = "analyzed"
    /\ UNCHANGED << AI_AVAILABLE, history, mat_a, mat_b, openai_key,
                    search_calls, search_outcome,
                    raw_data, gen_calls, gen_result, displayed, invocations >>

(* analyze, lines 69-81: llm.invoke returns a response with this content.   *)
AnalyzeLiveReturn(content) ==
    /\ AnalyzeReady
    /\ ~UseMockBrain(openai_key, AI_AVAILABLE)
    /\ search_data' = raw_data
    /\ results_text' = ""
    /\ yielded' = << >>
    /\ gen_calls' = Append(gen_calls,
                           GenRequest(openai_key, raw_data, mat_a, mat_b))
    /\ gen_result' = [kind |-> "returned", text |-> content]
    /\ final_report' = LiveReport(content)
    /\ pc' = "analyzed"
    /\ UNCHANGED << AI_AVAILABLE, history, mat_a, mat_b, openai_key,
                    search_calls, search_outcome,
                    raw_data, mock_calls, displayed, invocations >>

(* Variant: no except clause around llm.invoke, the error leaves analyze    *)
(* and main.                                                                *)
AnalyzeLiveRaise_Propagates(e) ==
    /\ AnalyzeReady
    /\ ~UseMockBrain(openai_key, AI_AVAILABLE)
    /\ search_data' = raw_data
    /\ results_text' = ""
    /\ yielded' = << >>
    /\ gen_calls' = Append(gen_calls,
                           GenRequest(openai_key, raw_data, mat_a, mat_b))
    /\ gen_result' = [kind |-> "raised", text |-> e]
    /\ pc' = "crashed"
    /\ UNCHANGED << AI_AVAILABLE, history, mat_a, mat_b, openai_key,
                    search_calls, search_outcome,
                    raw_data, mock_calls, final_report, displayed,
                    invocations >>

(* Variant: the except clause does fall back to the mock brain.             *)
AnalyzeLiveRaise_FallsBack(e) ==
    /\ AnalyzeReady
    /\ ~UseMockBrain(openai_key, AI_AVAILABLE)
    /\ search_data' = raw_data
    /\ results_text' = ""
    /\ yielded' = << >>
    /\ gen_calls' = Append(gen_calls,
                           GenRequest(openai_key, raw_data, mat_a, mat_b))
    /\ gen_result' = [kind |-> "raised", text |-> e]
    /\ mock_calls' = mock_calls + 1
    /\ final_report' = _mock_analysis(mat_a, mat_b)
    /\ pc' = "analyzed"
    /\ UNCHANGED << AI_AVAILABLE, history, mat_a, mat_b, openai_key,
                    search_calls, search_outcome,
                    raw_data, displayed, invocations >>

(* analyze, lines 80-83: llm.invoke raises e.                               *)
AnalyzeLiveRaise(e) ==
    /\ AnalyzeReady
    /\ ~UseMockBrain(openai_key, AI_AVAILABLE)
    /\ search_data' = raw_data
    /\ results_text' = ""
    /\ yielded' = << >>
    /\ gen_calls' = Append(gen_calls,
                           GenRequest(openai_key, raw_data, mat_a, mat_b))
    /\ gen_result' = [kind |-> "raised", text |-> e]
    /\ final_report' = ErrorReport(e)
    /\ pc' = "analyzed"
    /\ UNCHANGED << AI_AVAILABLE, history, mat_a, mat_b, openai_key,
                    search_calls, search_outcome,
                    raw_data, mock_calls, displayed, invocations >>

(* analyze, lines 70 and 82-83: constructing ChatOpenAI raises e, so that   *)
(* llm.invoke is never reached.                                             *)
AnalyzeConstructRaise(e) ==
    /\ AnalyzeReady
    /\ ~UseMockBrain(openai_key, AI_AVAILABLE)
    /\ search_data' = raw_data
    /\ results_text' = ""
    /\ yielded' = << >>
    /\ gen_result' = [kind |-> "construct_raised", text |-> e]
    /\ final_report' = ErrorReport(e)
    /\ pc' = "analyzed"
    /\ UNCHANGED << AI_AVAILABLE, history, mat_a, mat_b, openai_key,
                    search_calls, search_outcome,
                    raw_data, gen_calls, mock_calls, displayed, invocations >>

(* main, lines 146-147.                                                     *)
Display ==
    /\ pc = "analyzed"
    /\ displayed' = Append(displayed, final_report)
    /\ pc' = "output"
    /\ UNCHANGED << AI_AVAILABLE, history, mat_a, mat_b, openai_key,
                    results_text, yielded, search_calls, search_outcome,
                    raw_data, search_data, gen_calls, gen_result, mock_calls,
                    final_report, invocations >>

(* Variant: history.insert(0, ...) in place of history.append(...).         *)
AppendRecord_Prepend(log, record) == << record >> \o log

AppendRecord(log, record) == Append(log, record)

(* main, lines 150-151, and the end of the script run: the locals of the    *)
(* run are gone, the session state stays.                                   *)
MemoryUpdate(timestamp) ==
    /\ pc = "output"
    /\ history' = AppendRecord(history, SessionRecord(timestamp, mat_a, mat_b))
    /\ pc' = "idle"
    /\ mat_a' = ""
    /\ mat_b' = ""
    /\ openai_key' = StrKey("")
    /\ results_text' = ""
    /\ yielded' = << >>
    /\ search_calls' = << >>
    /\ search_outcome' = "none"
    /\ raw_data' = ""
    /\ search_data' = ""
    /\ gen_calls' = << >>
    /\ gen_result' = NoResult
    /\ mock_calls' = 0
    /\ final_report' = ""
    /\ displayed' = << >>
    /\ UNCHANGED << AI_AVAILABLE, invocations >>

Run ==
    \/ SearchCall
    \/ \E res \in Results : SearchYield(res)
    \/ SearchRaise
    \/ SearchExhausted
    \/ AnalyzeMock
    \/ \E content \in GenTexts : AnalyzeLiveReturn(content)
    \/ \E e \in Errors : AnalyzeLiveRaise(e)
    \/ \E e \in Errors : AnalyzeConstructRaise(e)
    \/ Display
    \/ \E timestamp \in Timestamps : MemoryUpdate(timestamp)

Next ==
    \/ \E a \in Subjects, b \in Subjects, key \in Keys : ButtonPress(a, b, key)
    \/ SearchCall
    \/ \E res \in Results : SearchYield(res)
    \/ SearchRaise
    \/ SearchExhausted
    \/ AnalyzeMock
    \/ \E content \in GenTexts : AnalyzeLiveReturn(content)
    \/ \E e \in Errors : AnalyzeLiveRaise(e)
    \/ \E e \in Errors : AnalyzeConstructRaise(e)
    \/ Display
    \/ \E timestamp \in Timestamps : MemoryUpdate(timestamp)

Spec == Init /\ [][Next]_vars

(* The handler is synchronous: once the button is pressed the script runs   *)
(* on, and each external call returns or raises.                            *)
FairSpec == Spec /\ WF_vars(Run)

TypeOK ==
    /\ AI_AVAILABLE \in BOOLEAN
    /\ pc \in { "idle", "scout", "iterating", "searched", "analyzed", "output",
                "crashed" }
    /\ Len(history) <= MaxRuns
    /\ Len(yielded) <= MaxResults
    /\ mock_calls \in 0..1

(***************************************************************************)
(* Properties                                                              *)
(***************************************************************************)
SearchFailed ==
    /\ pc = "searched"
    /\ search_outcome \in { "provider_error", "empty" }

(* C1, as stated: search never raises, and on a provider error or an empty *)
(* result set the Evidence begins with the fallback marker, contains both  *)
(* subjects verbatim and is the same text for the two causes.              *)
C1_BeginsWithMarker ==
    /\ pc # "crashed"
    /\ SearchFailed =>
         /\ StartsWith(raw_data, FallbackMarker)
         /\ Contains(raw_data, mat_a)
         /\ Contains(raw_data, mat_b)
         /\ raw_data = FallbackEvidence(mat_a, mat_b)

(* C1, amended: search never raises, and on a provider error or an empty   *)
(* result set the Evidence is layout whitespace followed by the fallback   *)
(* marker (the marker is its first non-blank text), contains both subjects *)
(* verbatim and is the same function of (A, B) for the two causes.         *)
C1_MarkerAfterWhitespace ==
    /\ pc # "crashed"
    /\ pc = "searched" => search_outcome \in { "ok", "provider_error", "empty" }
    /\ SearchFailed =>
         /\ StartsWith(LStrip(raw_data), FallbackMarker)
         /\ Contains(raw_data, mat_a)
         /\ Contains(raw_data, mat_b)
         /\ raw_data = FallbackEvidence(mat_a, mat_b)

C1_Witness ==
    /\ pc = "searched"
    /\ search_outcome = "provider_error"
    /\ mat_a = "Bamboo Fiber"
    /\ mat_b = "Cotton"

NoCredential == openai_key = NoneKey \/ openai_key.val = ""

TableRow == "\n        | **"

NamesRecommended(report, s) == Contains(report, "**" \o s \o "** is recommended.")

(* C2: without a credential, or with the generative integration missing,   *)
(* analyze returns the fallback template (a table of three rows and a      *)
(* recommendation sentence naming A or B) and makes no generation call.    *)
C2_FallbackWithoutCall ==
    (pc = "analyzed" /\ (NoCredential \/ ~AI_AVAILABLE)) =>
        /\ gen_calls = << >>
        /\ gen_result = NoResult
        /\ Count(final_report, TableRow) = 3
        /\ Contains(final_report, "| **Global Warming (kg CO2)** |")
        /\ Contains(final_report, "| **Water Usage (L/kg)** |")
        /\ Contains(final_report, "| **Circular Economy** |")
        /\ \/ NamesRecommended(final_report, mat_a)
           \/ NamesRecommended(final_report, mat_b)

C2_Witness ==
    /\ pc = "analyzed"
    /\ openai_key = StrKey("sk-test")
    /\ ~AI_AVAILABLE
    /\ mock_calls = 1

Favours(report, s) ==
    Count(report, ":white_check_mark: " \o s \o " Better |") = 3

(* C3: in fallback mode the subject the report recommends, and favours in  *)
(* its three rows, is the winner of the length rule: A when len(A) >       *)
(* len(B), and B otherwise.                                                *)
C3_RecommendsWinner ==
    (pc = "analyzed" /\ mock_calls = 1) =>
        /\ NamesRecommended(final_report, winner(mat_a, mat_b))
        /\ Favours(final_report, winner(mat_a, mat_b))

Embeds(record, pair) ==
    /\ Contains(record, pair[1])
    /\ Contains(record, pair[2])
    /\ Contains(record, "] " \o pair[1] \o " vs " \o pair[2])

LogMatchesInvocations ==
    /\ Len(history) = IF pc = "idle" THEN Len(invocations)
                                     ELSE Len(invocations) - 1
    /\ \A i \in 1..Len(history) : Embeds(history[i], invocations[i])

(* C4: after N invocations the Session Log holds N records in invocation   *)
(* order, the i-th embedding the i-th subject pair, and a later invocation *)
(* never changes, reorders or removes a record already in the log.         *)
C4_SessionLog ==
    /\ []LogMatchesInvocations
    /\ [][/\ Len(history') >= Len(history)
          /\ SubSeq(history', 1, Len(history)) = history]_vars

C4_Witness ==
    /\ pc = "idle"
    /\ Len(history) = 2
    /\ invocations[1] # invocations[2]

(* C5: every invocation, whatever the two providers do, runs on to display *)
(* its Report and then appends one Session Log record; it never ends in an *)
(* error state.                                                            *)
C5_AlwaysCompletes ==
    /\ [](pc # "crashed")
    /\ [](pc = "output" => displayed = << final_report >>)
    /\ [][Len(history') # Len(history) =>
            /\ pc = "output"
            /\ displayed = << final_report >>
            /\ Len(history') = Len(history) + 1]_vars
    /\ (pc = "scout") ~> (pc = "output")
    /\ (pc = "output") ~> (pc = "idle")

C5_Witness ==
    /\ pc = "output"
    /\ search_outcome = "provider_error"
    /\ gen_result.kind = "raised"

(* C6: with a credential and the integration available, a generation call  *)
(* that raises makes analyze return a diagnostic string with an explicit   *)
(* error indicator; the templated fallback report is not produced.         *)
C6_DiagnosticNotFallback ==
    (pc = "analyzed" /\ gen_result.kind = "raised") =>
        /\ ~NoCredential
        /\ AI_AVAILABLE
        /\ StartsWith(final_report, "Error in AI processing")
        /\ Contains(final_report, gen_result.text)
        /\ mock_calls = 0
        /\ final_report # _mock_analysis(mat_a, mat_b)
        /\ Count(final_report, TableRow) = 0

C6_Witness ==
    /\ pc = "analyzed"
    /\ gen_result = [kind |-> "raised", text |-> "401 Unauthorized"]

(* C7: with a credential and the integration available, a generation call  *)
(* that returns text T makes analyze return exactly T.                     *)
C7_LiveTextUnchanged ==
    (pc = "analyzed" /\ gen_result.kind = "returned") =>
        /\ ~NoCredential
        /\ AI_AVAILABLE
        /\ final_report = gen_result.text

C7_Witness ==
    /\ pc = "analyzed"
    /\ gen_result.kind = "returned"
    /\ Len(gen_result.text) > 0
    /\ search_outcome = "ok"

SearchCompleted == search_outcome \in { "ok", "provider_error", "empty" }

(* C8: the stages are ordered and never overlap: nothing of the analysis   *)
(* exists while the search runs, the generation call or the mock brain     *)
(* starts only once search has returned, analyze receives exactly the      *)
(* Evidence search returned, and the log is appended only after analyze    *)
(* has returned.                                                           *)
C8_StagesOrdered ==
    /\ [](pc \in { "scout", "iterating" } =>
            /\ ~SearchCompleted
            /\ gen_calls = << >> /\ mock_calls = 0 /\ gen_result = NoResult)
    /\ [](pc \in { "analyzed", "output" } =>
            /\ SearchCompleted
            /\ search_data = raw_data
            /\ results_text = "" /\ yielded = << >>
            /\ \A i \in 1..Len(gen_calls) :
                 gen_calls[i].human = HumanPrompt(raw_data, mat_a, mat_b))
    /\ [][(pc = "iterating" /\ pc' = "searched") =>
            raw_data' = IF search_outcome' = "ok"
                        THEN results_text
                        ELSE FallbackEvidence(mat_a, mat_b)]_vars
    /\ [][(Len(gen_calls') > Len(gen_calls) \/ mock_calls' > mock_calls) =>
            (pc = "searched" /\ SearchCompleted /\ raw_data' = raw_data)]_vars
    /\ [][history' # history =>
            (pc = "output" /\ (mock_calls = 1 \/ gen_result # NoResult))]_vars

C8_Witness ==
    /\ pc = "analyzed"
    /\ Len(gen_calls) = 1
    /\ search_outcome = "ok"
    /\ Count(raw_data, "Source: ") = 2

(* C9: one attempt per stage: the search call is issued exactly once per   *)
(* invocation, the generation call at most once, and a failed call is not  *)
(* retried.                                                                *)
C9_SingleAttempt ==
    /\ Len(search_calls) <= 1
    /\ Len(gen_calls) <= 1
    /\ pc \in { "iterating", "searched", "analyzed", "output" } =>
         Len(search_calls) = 1
    /\ gen_result.kind = "raised" => Len(gen_calls) = 1
    /\ gen_result.kind = "construct_raised" => Len(gen_calls) = 0

C9_Witness ==
    /\ pc = "output"
    /\ search_outcome = "provider_error"
    /\ gen_result.kind = "raised"
    /\ Len(search_calls) = 1
    /\ Len(gen_calls) = 1

RECURSIVE ConcatEntries(_)
ConcatEntries(rs) ==
    IF rs = << >> THEN "" ELSE Entry(Head(rs)) \o ConcatEntries(Tail(rs))

(* C10: Evidence is all or nothing: one entry per provider result, all of  *)
(* them in the provider's order, or the fallback text alone; entries       *)
(* accumulated before a provider error are discarded.                      *)
C10_AllOrNothing ==
    pc = "searched" =>
        \/ /\ search_outcome = "ok"
           /\ yielded # << >>
           /\ raw_data = ConcatEntries(yielded)
           /\ Count(raw_data, "Source: ") = Len(yielded)
        \/ /\ search_outcome = "empty"
           /\ yielded = << >>
           /\ raw_data = FallbackEvidence(mat_a, mat_b)
        \/ /\ search_outcome = "provider_error"
           /\ raw_data = FallbackEvidence(mat_a, mat_b)
           /\ Count(raw_data, "Source: ") = 0
           /\ Count(raw_data, "Link: ") = 0

C10_Witness ==
    /\ pc = "searched"
    /\ search_outcome = "provider_error"
    /\ Len(yielded) = 2
    /\ yielded[1] # yielded[2]

====
